---- MODULE Spec2Model ----
(***************************************************************************)
(* A model of src/app.py: the login form (check_password), the chat page   *)
(* (main_app) and the retrying Gemini call (_get_gemini_response).         *)
(*                                                                         *)
(* Specifications:                                                         *)
(*   Spec      the Streamlit application: the script is loaded (the        *)
(*             environment is read, init_connection runs), and every user  *)
(*             interaction runs the script once; a run that ends in        *)
(*             st.rerun() is followed by a run of its own (Run), and a     *)
(*             submission runs through the steps of _get_gemini_response   *)
(*             (one HTTP POST or one sleep per step).                      *)
(*   SendSpec  _get_gemini_response called directly, its arguments drawn   *)
(*             from bounded sets (the function's whole domain, including   *)
(*             arguments main_app never passes, such as an empty key).     *)
(*   SendFairSpec  SendSpec with weak fairness of the call's steps.        *)
(*                                                                         *)
(* A script run is taken to its end before the next interaction: Login,    *)
(* Logout, ClearHistory and Submit are enabled only when pc = "idle" (one  *)
(* submission at a time, no abort of a running call). When init_connection *)
(* stops the script (st.stop()), every run stops there: pc = "stopped".    *)
(*                                                                         *)
(* Python values: None is the string "<None>"; a dict is a record (the     *)
(* empty dict is the empty function), a list and a tuple are sequences.    *)
(***************************************************************************)
EXTENDS Integers, Sequences, FiniteSets, TLC

VARIABLES
    GEMINI_API_KEY,  \* app.py:14, read once from the environment
    MONGO_URI,       \* app.py:15, read once from the environment
    user_collection, \* app.py:40: the collection init_connection returned, as the
                     \* set of its documents; None when the script was stopped
    sidebar_errors,  \* the st.sidebar.error texts shown by the latest script run
    session_state,   \* st.session_state, a dict
    errors,          \* the st.error texts shown by the latest script run, in order
    form,            \* the login form as last submitted, NoForm otherwise
    phase,           \* history: "none" | "fresh" (logged in, nothing done yet)
                     \*          | "first" (first interaction is a submission) | "later"
    pc,              \* "idle" | "rerun" (st.rerun() was called, the next run is due)
                     \* | "call" | "post" | "sleep" | "done" | "stopped"
    api_key, chat_history, user_prompt, image_data, mime_type, max_retries,
                     \* the arguments of the running/latest _get_gemini_response
    contents,        \* payload["contents"] as built by the call
    attempt,         \* the loop variable of app.py:86
    response,        \* what the latest requests.post produced
    outcomes,        \* history: per POST, the branch of the try that handled it
    sleeps,          \* history: the durations passed to time.sleep, in order
    ai_response,     \* the value returned by the call
    submitted_from   \* history: the transcript when the submission was accepted

vars == <<GEMINI_API_KEY, MONGO_URI, user_collection, sidebar_errors, session_state,
          errors, form, phase, pc, api_key,
          chat_history, user_prompt, image_data, mime_type, max_retries,
          contents, attempt, response, outcomes, sleeps, ai_response,
          submitted_from>>

\* what is settled when the script is loaded and no run changes
env == <<GEMINI_API_KEY, MONGO_URI, user_collection, sidebar_errors>>

callArgs == <<api_key, chat_history, user_prompt, image_data, mime_type, max_retries>>
callLocals == <<contents, attempt, response, outcomes, sleeps, ai_response>>

-----------------------------------------------------------------------------
(* Bounds of the model *)

\* longest transcript the application specification builds
MaxTranscript == 6
\* longest chat_history the direct-call specification passes
MaxHistory == 12
\* largest max_retries the direct-call specification passes
MaxRetries == 4

-----------------------------------------------------------------------------
(* Python values *)

None == "<None>"
EmptyDict == [k \in {} |-> TRUE]

\* a truth test that forgets the empty string
TruthyNotNone(x) == x # None

\* bool(x) of a str-or-None value
Truthy(x) == x # None /\ x # ""

\* d.get(k, default) of a dict
Get(d, k, default) == IF k \in DOMAIN d THEN d[k] ELSE default

\* a backoff that grows by one per attempt
LinearBackoff(n) == n + 1

RECURSIVE Pow2(_)
Pow2(n) == IF n = 0 THEN 1 ELSE 2 * Pow2(n - 1)

-----------------------------------------------------------------------------
(* Program constants *)

AUTH_STATUS_KEY == "authenticated"
USERNAME_KEY == "username"
NAME_KEY == "name"

SYSTEM_INSTRUCTION ==
    "You are a friendly, helpful, and concise multimodal AI assistant. "
    \o "Provide detailed and accurate responses, especially when analyzing uploaded images."

\* the width of the slice chat_history[-10:]
HistoryWindow == 10
\* the default of the parameter max_retries
DefaultMaxRetries == 3

NoTextMessage == "Error: Could not extract text from the Gemini response."
NoKeyMessage == "Error: Gemini API Key is not set."
ConnectionMessage == "Connection error. Check your network or API endpoint."
BadPasswordMessage == "Incorrect password."
NoUserMessage == "Username not found."

-----------------------------------------------------------------------------
(* The user store (MongoDB collection User_credentials) and hashlib.sha256 *)

\* hashlib.sha256(password.encode()).hexdigest() on the passwords of the model
Sha256Hex(password) ==
    CASE password = "secret123" ->
           "fcf730b6d95236ecd3c9fc2d92d7b6b2bb061514961aec041d6c7a7192f592e4"
      [] password = "secret124" ->
           "2f4350974680903805ab7da16a7fbe0bd358b31d7560544b82c5b6870110b2db"
      [] password = "hunter2" ->
           "f52fbd32b2b3b86ff88ef6c490628285f482af15ddcb29541f94bcf526a3f6c7"
      [] password = "" ->
           "e3b0c44298fc1c149afbf4c8996fb92427ae41e4649b934ca495991b7852b855"

\* the documents of the collection: username, name, password_hash
User_credentials ==
    { [username |-> "alice", name |-> "Alice",
       password_hash |-> "fcf730b6d95236ecd3c9fc2d92d7b6b2bb061514961aec041d6c7a7192f592e4"],
      [username |-> "bob", name |-> "Bob",
       password_hash |-> "f52fbd32b2b3b86ff88ef6c490628285f482af15ddcb29541f94bcf526a3f6c7"] }

\* what the login form can carry
Usernames == {"alice", "bob", "Alice"}
Passwords == {"secret123", "secret124", "hunter2"}

\* user_collection.find_one({"username": username}): the document, or None
\* (modelled as the empty dict: both are falsy at app.py:132)
find_one(username) ==
    IF \E d \in user_collection : d.username = username
    THEN CHOOSE d \in user_collection : d.username = username
    ELSE EmptyDict

NoForm == EmptyDict

\* the values of MONGO_URI in the environment
MongoUris == {None, "", "mongodb+srv://cluster0.example.net"}

\* what MongoClient(MONGO_URI) does: None when it returns a client, else the
\* str(e) of the exception it raises
ClientOutcomes == {None, "no server"}

NoUriMessage == "Error: MONGO_URI not found in .env file."

\* app.py:23-37: the collection returned, or the message shown and st.stop()
init_connection(uri, client_raises) ==
    IF ~Truthy(uri)
    THEN [stopped |-> TRUE, collection |-> None,
          errors |-> <<NoUriMessage>>, sidebar |-> <<>>]
    ELSE IF client_raises = None
         THEN [stopped |-> FALSE, collection |-> User_credentials,
               errors |-> <<>>, sidebar |-> <<>>]
         ELSE [stopped |-> TRUE, collection |-> None, errors |-> <<>>,
               sidebar |-> <<"Error connecting to MongoDB Atlas: " \o client_raises>>]

-----------------------------------------------------------------------------
(* Uploaded files: base64_encode_image and the PIL check of main_app *)

NoFile == EmptyDict

\* the files the uploader can hold: the bytes, uploaded_file.type, and whether
\* PIL's Image.open accepts the bytes (it never accepts an empty file)
Uploads ==
    { NoFile,
      [bytes |-> "PNG1", type |-> "image/png", opens |-> TRUE],
      [bytes |-> "junk", type |-> "image/jpeg", opens |-> FALSE],
      [bytes |-> "", type |-> "image/png", opens |-> FALSE] }

\* base64.b64encode(file_bytes).decode("utf-8") on the byte strings of the model
b64encode(bytes) ==
    CASE bytes = "PNG1" -> "UE5HMQ=="
      [] bytes = "JPG1" -> "SlBHMQ=="
      [] bytes = "junk" -> "anVuaw=="
      [] bytes = "" -> ""

\* uploaded_file.type.startswith('image'), on the MIME types of the model
StartsWithImage(type) == type \in {"image/png", "image/jpeg"}

\* base64_encode_image(uploaded_file): (encoded_string, mime_type)
base64_encode_image(uploaded_file) ==
    IF uploaded_file # NoFile
    THEN <<b64encode(uploaded_file.bytes), uploaded_file.type>>
    ELSE <<None, None>>

\* str(e) of the UnidentifiedImageError of Image.open(uploaded_file): the text
\* ends in the repr of the uploaded file, whose address is written 0x...
ImageErrorMessage ==
    "cannot identify image file "
    \o "<streamlit.runtime.uploaded_file_manager.UploadedFile object at 0x...>"

\* app.py:203-215: image_data, mime_type and the st.error of a failed Image.open
ProcessUpload(uploaded_file) ==
    IF uploaded_file # NoFile /\ StartsWithImage(uploaded_file.type)
    THEN IF uploaded_file.opens
         THEN [data |-> base64_encode_image(uploaded_file), errors |-> <<>>]
         ELSE [data |-> <<None, None>>,
               errors |-> <<"Could not process image: " \o ImageErrorMessage>>]
    ELSE [data |-> <<None, None>>, errors |-> <<>>]

-----------------------------------------------------------------------------
(* The request document: app.py:74-83 *)

\* a window taken from the front: seq[:n]
FirstN(seq, n) ==
    IF Len(seq) <= n THEN seq ELSE SubSeq(seq, 1, n)

\* seq[-n:]
LastN(seq, n) ==
    IF Len(seq) <= n THEN seq ELSE SubSeq(seq, Len(seq) - n + 1, Len(seq))

\* the message of one (role, text) turn
TurnMessage(turn) == [role |-> turn[1], parts |-> <<[text |-> turn[2]]>>]

\* the inline part appended after the text part
UserPartsTextFirst(prompt, data, mime) ==
    IF Truthy(data) /\ Truthy(mime)
    THEN <<[text |-> prompt], [inlineData |-> [mimeType |-> mime, data |-> data]]>>
    ELSE <<[text |-> prompt]>>

\* an inline part for every attachment that is not None, empty or not
UserPartsNotNone(prompt, data, mime) ==
    IF data # None /\ mime # None
    THEN <<[inlineData |-> [mimeType |-> mime, data |-> data]], [text |-> prompt]>>
    ELSE <<[text |-> prompt]>>

\* the parts of the new user message
UserParts(prompt, data, mime) ==
    IF Truthy(data) /\ Truthy(mime)
    THEN <<[inlineData |-> [mimeType |-> mime, data |-> data]], [text |-> prompt]>>
    ELSE <<[text |-> prompt]>>

\* payload["contents"]
BuildContents(history, prompt, data, mime) ==
    LET window == LastN(history, HistoryWindow)
    IN  [i \in 1..Len(window) |-> TurnMessage(window[i])]
        \o <<[role |-> "user", parts |-> UserParts(prompt, data, mime)]>>

\* the payload of app.py:83
Payload(c) ==
    [contents |-> c, systemInstruction |-> [parts |-> <<[text |-> SYSTEM_INSTRUCTION]>>]]

-----------------------------------------------------------------------------
(* One HTTP attempt: app.py:87-113 *)

\* the classes an exception is an instance of (requests.exceptions and builtins)
ExceptionClasses(exc) ==
    CASE exc = "HTTPError" -> {"HTTPError", "RequestException", "Exception"}
      [] exc = "ConnectionError" -> {"ConnectionError", "RequestException", "Exception"}
      [] exc = "ConnectTimeout" ->
           {"ConnectTimeout", "ConnectionError", "Timeout", "RequestException", "Exception"}
      [] exc = "ReadTimeout" -> {"ReadTimeout", "Timeout", "RequestException", "Exception"}
      [] exc = "JSONDecodeError" ->
           {"JSONDecodeError", "InvalidJSONError", "RequestException", "ValueError", "Exception"}
      [] exc = "IndexError" -> {"IndexError", "LookupError", "Exception"}

isinstance(exc, class) == class \in ExceptionClasses(exc)

\* response bodies, as parsed by response.json()
TextBody(text) == [candidates |-> <<[content |-> [parts |-> <<[text |-> text]>>]]>>]

Texts == {"Hi there"}

Bodies ==
    { TextBody(t) : t \in Texts } \cup
    { TextBody(""),
      EmptyDict,
      [candidates |-> <<>>],
      [candidates |-> <<EmptyDict>>],
      [candidates |-> <<[finishReason |-> "SAFETY"]>>],
      [candidates |-> <<[content |-> [role |-> "model"]]>>],
      [candidates |-> <<[content |-> [parts |-> <<>>]]>>],
      [candidates |-> <<[content |-> [parts |-> <<[inlineData |-> "x"]>>]]>>] }

\* app.py:48-51, as host and path
ApiHost == "generativelanguage.googleapis.com"
ApiPath == "/v1beta/models/gemini-2.5-flash-preview-09-2025:generateContent"
GEMINI_API_URL == "https://" \o ApiHost \o ApiPath

\* how the HTTP library names the connection pool and the connection in its
\* messages
PoolName == "HTTPSConnectionPool(host='" \o ApiHost \o "', port=443)"
ConnectionName == "HTTPSConnection(host='" \o ApiHost \o "', port=443)"

\* str(e) of the exceptions requests.post raises (requests over urllib3), for a
\* refused connection, a timeout while connecting and a timeout while reading;
\* the URL of app.py:90 carries the key, and the address in the repr of the
\* connection object is written 0x...
PostExceptionMessage(exc, key) ==
    CASE exc = "ConnectionError" ->
           PoolName \o ": Max retries exceeded with url: " \o ApiPath \o "?key=" \o key
           \o " (Caused by NewConnectionError(\"" \o ConnectionName
           \o ": Failed to establish a new connection: [Errno 111] Connection refused\"))"
      [] exc = "ConnectTimeout" ->
           PoolName \o ": Max retries exceeded with url: " \o ApiPath \o "?key=" \o key
           \o " (Caused by ConnectTimeoutError(<" \o ConnectionName \o " at 0x...>, "
           \o "'Connection to " \o ApiHost \o " timed out. (connect timeout=60)'))"
      [] exc = "ReadTimeout" ->
           PoolName \o ": Read timed out. (read timeout=60)"

\* the reason phrase of the status codes of the model
Reason(status_code) ==
    CASE status_code = 404 -> "Not Found"
      [] status_code = 500 -> "Internal Server Error"

\* str(e) of the HTTPError response.raise_for_status() raises (app.py:95)
StatusErrorMessage(status_code, key) ==
    ToString(status_code)
    \o (IF status_code < 500 THEN " Client Error: " ELSE " Server Error: ")
    \o Reason(status_code) \o " for url: " \o GEMINI_API_URL \o "?key=" \o key

\* str(e) of the JSONDecodeError response.json() raises on the texts of the model
JsonErrorMessage(text) ==
    CASE text = "<html>" -> "Expecting value: line 1 column 1 (char 0)"

\* str(e) of the IndexError of [][0]
IndexErrorMessage == "list index out of range"

\* what requests.post can produce for the call's api_key: an exception with its
\* message, or a response with a status code, a text, and a body that parses as
\* JSON or not
Responses ==
    { [raised |-> e, message |-> PostExceptionMessage(e, api_key), status_code |-> 0,
       text |-> "", parses |-> FALSE, json |-> EmptyDict]
        : e \in {"ConnectionError", "ConnectTimeout", "ReadTimeout"} } \cup
    { [raised |-> None, message |-> None, status_code |-> s, text |-> "server said no",
       parses |-> FALSE, json |-> EmptyDict] : s \in {404, 500} } \cup
    { [raised |-> None, message |-> None, status_code |-> 200, text |-> "<html>",
       parses |-> FALSE, json |-> EmptyDict] } \cup
    { [raised |-> None, message |-> None, status_code |-> 200, text |-> "{...}",
       parses |-> TRUE, json |-> b]
        : b \in Bodies }

\* app.py:97-100: the returned text, or the exception an index raises
ExtractText(result) ==
    LET candidates == Get(result, "candidates", <<EmptyDict>>)
        IndexError == [raised |-> "IndexError", message |-> IndexErrorMessage,
                       value |-> None]
    IN  IF Len(candidates) = 0
        THEN IndexError
        ELSE LET candidate == candidates[1]
             IN  IF candidate = EmptyDict
                 THEN [raised |-> None, message |-> None, value |-> NoTextMessage]
                 ELSE LET parts == Get(Get(candidate, "content", EmptyDict),
                                       "parts", <<EmptyDict>>)
                      IN  IF Len(parts) = 0
                          THEN IndexError
                          ELSE IF Truthy(Get(parts[1], "text", None))
                               THEN [raised |-> None, message |-> None,
                                     value |-> parts[1].text]
                               ELSE [raised |-> None, message |-> None,
                                     value |-> NoTextMessage]

\* app.py:89-100, the body of the try: the value returned, or the exception
\* raised and its str(e)
TryPost(resp) ==
    IF resp.raised # None
    THEN [raised |-> resp.raised, message |-> resp.message, value |-> None]
    ELSE IF resp.status_code >= 400 /\ resp.status_code < 600
         THEN [raised |-> "HTTPError",
               message |-> StatusErrorMessage(resp.status_code, api_key),
               value |-> None]
         ELSE IF ~resp.parses
              THEN [raised |-> "JSONDecodeError", message |-> JsonErrorMessage(resp.text),
                    value |-> None]
              ELSE ExtractText(resp.json)

\* every exception taken by the generic handler
HandlerGenericOnly(exc) == "Exception"

\* app.py:102-108: the except clause that handles an exception
Handler(exc) ==
    IF isinstance(exc, "HTTPError") THEN "HTTPError"
    ELSE IF isinstance(exc, "ConnectionError") THEN "ConnectionError"
    ELSE "Exception"

\* a generic handler that sleeps after the last allowed attempt as well
RetriesAfterLast(k, retries) == k < retries

\* app.py:109: whether the generic handler sleeps and retries
Retries(k, retries) == k < retries - 1

HttpErrorMessage(resp) ==
    "HTTP Error: " \o ToString(resp.status_code) \o " - " \o resp.text

\* app.py:112: the text ends in str(e)
ExhaustedMessage(retries, message) ==
    "Failed to connect to the API after " \o ToString(retries) \o " attempts: " \o message

-----------------------------------------------------------------------------
(* The session: st.session_state as used by main, check_password, main_app *)

\* st.session_state.get(AUTH_STATUS_KEY), as tested at app.py:231
Authenticated(ss) == Get(ss, AUTH_STATUS_KEY, FALSE)

\* ss[key] = value
SetItem(ss, key, value) ==
    [k \in DOMAIN ss \cup {key} |-> IF k = key THEN value ELSE ss[k]]

\* app.py:191-193 (the typographic apostrophe of "I'm" and the backquotes around
\* .env are written in ASCII and left out: the module's lexer takes neither)
Greeting(name, key) ==
    "Hello " \o name
    \o "! I'm a Multimodal AI. Feel free to upload an image for analysis."
    \o (IF ~Truthy(key)
        THEN "\n\n**Note:** Missing API key. Please check your .env file."
        ELSE "")

\* a transcript created empty, without the greeting
InitChatStateNoGreeting(ss, key) ==
    IF "messages" \notin DOMAIN ss THEN SetItem(ss, "messages", <<>>) ELSE ss

\* a greeting put back whenever the transcript is absent or empty
InitChatStateRegreets(ss, key) ==
    IF Get(ss, "messages", <<>>) = <<>>
    THEN SetItem(ss, "messages", <<<<"model", Greeting(ss[NAME_KEY], key)>>>>)
    ELSE ss

\* app.py:189-194: the transcript is created, with the greeting, when absent
InitChatState(ss, key) ==
    IF "messages" \notin DOMAIN ss
    THEN SetItem(ss, "messages", <<<<"model", Greeting(ss[NAME_KEY], key)>>>>)
    ELSE ss

\* a login that accepts any password of a known user
CheckCredentialsAnyPassword(ss, username, password) ==
    LET user_data == find_one(username)
    IN  IF user_data # EmptyDict
        THEN [session |-> SetItem(SetItem(SetItem(ss, AUTH_STATUS_KEY, TRUE),
                                          USERNAME_KEY, user_data.username),
                                  NAME_KEY, user_data.name),
              errors |-> <<>>]
        ELSE [session |-> ss, errors |-> <<NoUserMessage>>]

\* app.py:132-147: the session and the st.error of a submitted login form
CheckCredentials(ss, username, password) ==
    LET user_data == find_one(username)
    IN  IF user_data # EmptyDict
        THEN IF Sha256Hex(password) = Get(user_data, "password_hash", None)
             THEN [session |-> SetItem(SetItem(SetItem(ss, AUTH_STATUS_KEY, TRUE),
                                               USERNAME_KEY, user_data.username),
                                       NAME_KEY, user_data.name),
                   errors |-> <<>>]
             ELSE [session |-> ss, errors |-> <<BadPasswordMessage>>]
        ELSE [session |-> ss, errors |-> <<NoUserMessage>>]

\* app.py:218
ApiHistory(messages) == SelectSeq(messages, LAMBDA m : m[1] \in {"user", "model"})

\* a chat input that is never disabled
InputNeverDisabled(key) == FALSE

\* the chat input of app.py:202 is disabled without a key
InputDisabled(key) == ~Truthy(key)

\* no call is running and the record of the latest call is dropped
ResetCall ==
    /\ api_key' = None
    /\ chat_history' = <<>>
    /\ user_prompt' = None
    /\ image_data' = None
    /\ mime_type' = None
    /\ max_retries' = 0
    /\ contents' = <<>>
    /\ attempt' = 0
    /\ response' = EmptyDict
    /\ outcomes' = <<>>
    /\ sleeps' = <<>>
    /\ ai_response' = None
    /\ submitted_from' = <<>>

-----------------------------------------------------------------------------
(* The steps of _get_gemini_response *)

\* app.py:70-86: the key check, the payload, the entry of the loop
Call ==
    /\ pc = "call"
    /\ IF ~Truthy(api_key)
       THEN /\ errors' = Append(errors, NoKeyMessage)
            /\ ai_response' = None
            /\ pc' = "done"
            /\ UNCHANGED contents
       ELSE /\ contents' = BuildContents(chat_history, user_prompt, image_data, mime_type)
            /\ pc' = IF max_retries > 0 THEN "post" ELSE "done"
            /\ UNCHANGED <<errors, ai_response>>
    /\ UNCHANGED <<env, session_state, form, phase, callArgs, attempt,
                   response, outcomes, sleeps, submitted_from>>

\* app.py:87-113 up to the sleep: one POST, classified
Post(resp) ==
    /\ pc = "post"
    /\ response' = resp
    /\ LET r == TryPost(resp)
           h == IF r.raised = None THEN "return" ELSE Handler(r.raised)
       IN  /\ outcomes' = Append(outcomes, h)
           /\ CASE h = "return" ->
                     /\ ai_response' = r.value
                     /\ pc' = "done"
                     /\ UNCHANGED errors
                [] h = "HTTPError" ->
                     /\ errors' = Append(errors, HttpErrorMessage(resp))
                     /\ ai_response' = None
                     /\ pc' = "done"
                [] h = "ConnectionError" ->
                     /\ errors' = Append(errors, ConnectionMessage)
                     /\ ai_response' = None
                     /\ pc' = "done"
                [] h = "Exception" ->
                     IF Retries(attempt, max_retries)
                     THEN /\ pc' = "sleep"
                          /\ UNCHANGED <<errors, ai_response>>
                     ELSE /\ errors' = Append(errors, ExhaustedMessage(max_retries, r.message))
                          /\ ai_response' = None
                          /\ pc' = "done"
    /\ UNCHANGED <<env, session_state, form, phase, callArgs, contents,
                   attempt, sleeps, submitted_from>>

\* a sleep after which the loop variable is not advanced
SleepWithoutAdvance ==
    /\ pc = "sleep"
    /\ sleeps' = Append(sleeps, Pow2(attempt))
    /\ attempt' = attempt
    /\ pc' = "post"
    /\ UNCHANGED <<env, session_state, errors, form, phase, callArgs,
                   contents, response, outcomes, ai_response, submitted_from>>

\* app.py:110, then the next iteration of app.py:86, or app.py:114 when the
\* range is exhausted
Sleep ==
    /\ pc = "sleep"
    /\ sleeps' = Append(sleeps, Pow2(attempt))
    /\ attempt' = attempt + 1
    /\ pc' = IF attempt + 1 < max_retries THEN "post" ELSE "done"
    /\ UNCHANGED <<env, session_state, errors, form, phase, callArgs,
                   contents, response, outcomes, ai_response, submitted_from>>

-----------------------------------------------------------------------------
(* The script runs of the application: one per user interaction *)

\* app.py:229-235 with no button clicked and no prompt entered (a file chosen
\* in the uploader, or the run st.rerun() asked for): check_password shows the
\* empty form, or main_app creates the transcript when it is absent
Run ==
    /\ pc \in {"idle", "rerun"}
    /\ session_state' = IF Authenticated(session_state)
                        THEN InitChatState(session_state, GEMINI_API_KEY)
                        ELSE session_state
    /\ errors' = <<>>
    /\ form' = NoForm
    /\ pc' = "idle"
    /\ UNCHANGED <<env, phase, callArgs, callLocals, submitted_from>>

\* main -> check_password with the form submitted (app.py:129-147); on success
\* the run ends in st.rerun()
Login(username, password) ==
    /\ pc = "idle"
    /\ ~Authenticated(session_state)
    /\ LET r == CheckCredentials(session_state, username, password)
       IN  /\ session_state' = r.session
           /\ errors' = r.errors
           /\ phase' = IF Authenticated(r.session) THEN "fresh" ELSE "none"
           /\ pc' = IF Authenticated(r.session) THEN "rerun" ELSE "idle"
    /\ form' = [username |-> username, password |-> password]
    /\ ResetCall
    /\ UNCHANGED env

\* a logout that removes the flag and the identity and keeps the transcript
LogoutKeepsTranscript ==
    /\ pc = "idle"
    /\ Authenticated(session_state)
    /\ session_state' = [messages |-> session_state.messages]
    /\ errors' = <<>>
    /\ form' = NoForm
    /\ phase' = "none"
    /\ pc' = "rerun"
    /\ ResetCall
    /\ UNCHANGED env

\* app.py:163-165: the run ends in st.rerun()
Logout ==
    /\ pc = "idle"
    /\ Authenticated(session_state)
    /\ session_state' = EmptyDict
    /\ errors' = <<>>
    /\ form' = NoForm
    /\ phase' = "none"
    /\ pc' = "rerun"
    /\ ResetCall
    /\ UNCHANGED env

\* app.py:184-186: the run ends in st.rerun()
ClearHistory ==
    /\ pc = "idle"
    /\ Authenticated(session_state)
    /\ session_state' = SetItem(session_state, "messages", <<>>)
    /\ errors' = <<>>
    /\ form' = NoForm
    /\ phase' = "later"
    /\ pc' = "rerun"
    /\ ResetCall
    /\ UNCHANGED env

\* app.py:202-220: a prompt is entered; the turn is appended and the call made
Submit(prompt, uploaded_file) ==
    /\ pc = "idle"
    /\ Authenticated(session_state)
    /\ ~InputDisabled(GEMINI_API_KEY)
    /\ LET ss == InitChatState(session_state, GEMINI_API_KEY)
           img == ProcessUpload(uploaded_file)
           messages == Append(ss.messages, <<"user", prompt>>)
       IN  /\ Len(ss.messages) + 2 <= MaxTranscript
           /\ session_state' = SetItem(ss, "messages", messages)
           /\ submitted_from' = ss.messages
           /\ errors' = img.errors
           /\ api_key' = GEMINI_API_KEY
           /\ chat_history' = ApiHistory(messages)
           /\ user_prompt' = prompt
           /\ image_data' = img.data[1]
           /\ mime_type' = img.data[2]
    /\ max_retries' = DefaultMaxRetries
    /\ contents' = <<>>
    /\ attempt' = 0
    /\ response' = EmptyDict
    /\ outcomes' = <<>>
    /\ sleeps' = <<>>
    /\ ai_response' = None
    /\ form' = NoForm
    /\ phase' = IF phase = "fresh" THEN "first" ELSE "later"
    /\ pc' = "call"
    /\ UNCHANGED env

\* a return that appends a model turn whatever the call returned
ReturnAlwaysAppends ==
    /\ pc = "done"
    /\ session_state' = SetItem(session_state, "messages",
                                Append(session_state.messages, <<"model", ai_response>>))
    /\ pc' = "idle"
    /\ UNCHANGED <<env, errors, form, phase, callArgs, callLocals,
                   submitted_from>>

\* a return that takes the unanswered user turn back when the call gave nothing
ReturnRollsBack ==
    /\ pc = "done"
    /\ session_state' =
         IF Truthy(ai_response)
         THEN SetItem(session_state, "messages",
                      Append(session_state.messages, <<"model", ai_response>>))
         ELSE SetItem(session_state, "messages", submitted_from)
    /\ pc' = "idle"
    /\ UNCHANGED <<env, errors, form, phase, callArgs, callLocals,
                   submitted_from>>

\* app.py:222-225: the call has returned
Return ==
    /\ pc = "done"
    /\ session_state' =
         IF Truthy(ai_response)
         THEN SetItem(session_state, "messages",
                      Append(session_state.messages, <<"model", ai_response>>))
         ELSE session_state
    /\ pc' = "idle"
    /\ UNCHANGED <<env, errors, form, phase, callArgs, callLocals,
                   submitted_from>>

-----------------------------------------------------------------------------
(* The application *)

Prompts == {"Hello", "What is in this image?"}
ApiKeys == {None, "", "AIzaSyTestKey"}

\* the script is loaded (app.py:13-40) and, unless init_connection stopped it,
\* main shows the login form
Init ==
    /\ GEMINI_API_KEY \in ApiKeys
    /\ MONGO_URI \in MongoUris
    /\ \E client_raises \in ClientOutcomes :
         LET c == init_connection(MONGO_URI, client_raises)
         IN  /\ user_collection = c.collection
             /\ errors = c.errors
             /\ sidebar_errors = c.sidebar
             /\ pc = IF c.stopped THEN "stopped" ELSE "idle"
    /\ session_state = EmptyDict
    /\ form = NoForm
    /\ phase = "none"
    /\ api_key = None
    /\ chat_history = <<>>
    /\ user_prompt = None
    /\ image_data = None
    /\ mime_type = None
    /\ max_retries = 0
    /\ contents = <<>>
    /\ attempt = 0
    /\ response = EmptyDict
    /\ outcomes = <<>>
    /\ sleeps = <<>>
    /\ ai_response = None
    /\ submitted_from = <<>>

DoLogin == \E u \in Usernames, p \in Passwords : Login(u, p)
DoSubmit == \E p \in Prompts, f \in Uploads : Submit(p, f)
DoPost == \E r \in Responses : Post(r)

Next ==
    \/ Run
    \/ DoLogin
    \/ Logout
    \/ ClearHistory
    \/ DoSubmit
    \/ Call
    \/ DoPost
    \/ Sleep
    \/ Return

Spec == Init /\ [][Next]_vars

-----------------------------------------------------------------------------
(* _get_gemini_response called directly *)

\* a chat history of the given length: alternating roles, every text distinct
History(length, first) ==
    [i \in 1..length |->
        IF (i + first) % 2 = 0
        THEN <<"user", "question " \o ToString(i)>>
        ELSE <<"model", "answer " \o ToString(i)>>]

Histories == { History(n, f) : n \in 0..MaxHistory, f \in 0..1 }

ImageData == {None, "", "UE5HMQ=="}
MimeTypes == {None, "", "image/png", "application/x-unknown"}

SendInit ==
    /\ api_key \in ApiKeys
    /\ chat_history \in Histories
    /\ user_prompt \in Prompts
    /\ image_data \in ImageData
    /\ mime_type \in MimeTypes
    /\ max_retries \in 0..MaxRetries
    /\ GEMINI_API_KEY = api_key
    /\ MONGO_URI = "mongodb+srv://cluster0.example.net"
    /\ user_collection = User_credentials
    /\ sidebar_errors = <<>>
    /\ session_state = [authenticated |-> TRUE, username |-> "alice", name |-> "Alice",
                        messages |-> chat_history]
    /\ submitted_from = chat_history
    /\ errors = <<>>
    /\ form = NoForm
    /\ phase = "later"
    /\ pc = "call"
    /\ contents = <<>>
    /\ attempt = 0
    /\ response = EmptyDict
    /\ outcomes = <<>>
    /\ sleeps = <<>>
    /\ ai_response = None

SendNext ==
    \/ Call
    \/ DoPost
    \/ Sleep

SendSpec == SendInit /\ [][SendNext]_vars

\* the call runs on one thread: a step that can be taken is taken (the POST has
\* a timeout of 60 s and the sleep is finite)
SendFairSpec == SendSpec /\ WF_vars(SendNext)

-----------------------------------------------------------------------------
(* Claims about _get_gemini_response, checked under SendSpec *)

InCall == pc \in {"post", "sleep", "done"}
KeyGiven == api_key \notin {None, ""}
Attempts == Len(outcomes)

\* C1: whenever attempt k (0-indexed, not the last allowed) ends in the generic
\* exception handler, the call sleeps exactly 2^k and then issues attempt k+1;
\* with max_retries = 3, two generic failures and a third attempt that answers
\* with a text end in that text after exactly 3 attempts and sleeps 1 then 2.
C1_BackoffThenRetry ==
    /\ \A k \in 0..(Attempts - 1) :
         (outcomes[k + 1] = "Exception" /\ k < max_retries - 1) =>
            \/ /\ pc = "sleep"
               /\ Attempts = k + 1
               /\ Len(sleeps) = k
            \/ /\ Len(sleeps) >= k + 1
               /\ sleeps[k + 1] = 2 ^ k
               /\ \/ Attempts > k + 1
                  \/ pc = "post" /\ attempt = k + 1
    /\ Len(sleeps) <= Attempts
    /\ ( /\ max_retries = 3
         /\ pc = "done"
         /\ Attempts >= 2
         /\ outcomes[1] = "Exception"
         /\ outcomes[2] = "Exception"
         /\ response = [raised |-> None, message |-> None, status_code |-> 200, text |-> "{...}",
                        parses |-> TRUE, json |-> TextBody("Hi there")] )
       => /\ Attempts = 3
          /\ ai_response = "Hi there"
          /\ sleeps = <<1, 2>>

C1_Witness ==
    /\ max_retries = 3
    /\ pc = "done"
    /\ outcomes = <<"Exception", "Exception", "return">>
    /\ ai_response = "Hi there"
    /\ sleeps = <<1, 2>>

\* C2: an attempt that yields an HTTP 4xx/5xx status or a connection error ends
\* the call at once with None and the matching error message: it is the last
\* attempt, whatever its index, and no sleep follows it; a first answer of 500
\* ends the call after 1 attempt and 0 sleeps.
C2_HttpAndConnectionNotRetried ==
    /\ \A k \in 1..Attempts :
         outcomes[k] \in {"HTTPError", "ConnectionError"} =>
            /\ k = Attempts
            /\ pc = "done"
            /\ ai_response = None
            /\ Len(sleeps) = k - 1
    /\ (Attempts >= 1 /\ response.raised = None /\ response.status_code \in 400..599)
       => /\ pc = "done"
          /\ ai_response = None
          /\ outcomes[Attempts] = "HTTPError"
          /\ Len(sleeps) = Attempts - 1
          /\ errors[Len(errors)] = "HTTP Error: " \o ToString(response.status_code)
                                   \o " - server said no"
    /\ (Attempts >= 1 /\ response.raised \in {"ConnectionError", "ConnectTimeout"})
       => /\ pc = "done"
          /\ ai_response = None
          /\ outcomes[Attempts] = "ConnectionError"
          /\ Len(sleeps) = Attempts - 1
          /\ errors[Len(errors)] = "Connection error. Check your network or API endpoint."

C2_Witness ==
    /\ pc = "done"
    /\ Attempts = 1
    /\ response.status_code = 500
    /\ sleeps = <<>>
    /\ ai_response = None

\* C3: called with an empty or absent api_key, the call returns None at once,
\* having made no HTTP attempt and no sleep (and built no payload).
C3_MissingKeyNoAttempt ==
    (api_key \in {None, ""} /\ pc # "call")
       => /\ pc = "done"
          /\ ai_response = None
          /\ outcomes = <<>>
          /\ sleeps = <<>>
          /\ response = EmptyDict
          /\ contents = <<>>
          /\ errors = <<"Error: Gemini API Key is not set.">>

C3_Witness ==
    /\ api_key = ""
    /\ pc = "done"
    /\ outcomes = <<>>
    /\ errors = <<"Error: Gemini API Key is not set.">>

-----------------------------------------------------------------------------
(* Claims about the request document, checked under SendSpec *)

\* the number of history turns the document carries
WindowLength(history) == IF Len(history) < 10 THEN Len(history) ELSE 10

\* the messages of the last WindowLength turns, roles kept, in order
WindowMessages(history) ==
    [i \in 1..WindowLength(history) |->
        LET turn == history[Len(history) - WindowLength(history) + i]
        IN  [role |-> turn[1], parts |-> <<[text |-> turn[2]]>>]]

TextOnlyDocument == WindowMessages(chat_history)
    \o <<[role |-> "user", parts |-> <<[text |-> user_prompt]>>]>>

InlinePart == [inlineData |-> [mimeType |-> mime_type, data |-> image_data]]

WithInlinePart == WindowMessages(chat_history)
    \o <<[role |-> "user", parts |-> <<InlinePart, [text |-> user_prompt]>>]>>

\* C6 as stated: every attachment that is given (data and MIME type not None)
\* is the first part of the new user message.
C6_Original ==
    (InCall /\ KeyGiven)
       => contents = IF image_data # None /\ mime_type # None
                     THEN WithInlinePart
                     ELSE TextOnlyDocument

\* C6 amended: each history turn becomes one message, role and order kept, and the
\* new user message is last; an attachment whose data and MIME type are both
\* non-empty is its first part, ahead of the text part, and adds nothing else
\* to the text-only document; an attachment whose data or MIME type is empty or
\* None is left out (one text part).
C6_InlinePartFirst ==
    (InCall /\ KeyGiven)
       => /\ contents = IF image_data \notin {None, ""} /\ mime_type \notin {None, ""}
                        THEN WithInlinePart
                        ELSE TextOnlyDocument
          /\ \A i \in 1..(Len(contents) - 1) : contents[i] = TextOnlyDocument[i]
          /\ contents[Len(contents)].role = "user"
          /\ Len(contents) = Len(TextOnlyDocument)

C6_Witness ==
    /\ pc = "done"
    /\ Len(chat_history) = 2
    /\ image_data = "UE5HMQ=="
    /\ mime_type = "application/x-unknown"
    /\ Len(contents) = 3
    /\ contents[3].parts = <<[inlineData |-> [mimeType |-> "application/x-unknown",
                                              data |-> "UE5HMQ=="]],
                             [text |-> user_prompt]>>

\* C7: the window chat_history[-10:] of a history of length L holds exactly
\* min(10, L) turns, the last ones, in their order, and taking it leaves the
\* stored transcript as it was.
C7_RecentWindow ==
    (InCall /\ KeyGiven)
       => LET L == Len(chat_history)
              n == Len(contents) - 1
          IN  /\ n = IF L < 10 THEN L ELSE 10
              /\ \A i \in 1..n :
                   /\ contents[i].role = chat_history[L - n + i][1]
                   /\ contents[i].parts = <<[text |-> chat_history[L - n + i][2]]>>
              /\ chat_history = submitted_from
              /\ session_state.messages = submitted_from

C7_Witness ==
    /\ pc = "done"
    /\ Len(chat_history) = 12
    /\ Len(contents) = 11
    /\ contents[1].parts = <<[text |-> chat_history[3][2]]>>

-----------------------------------------------------------------------------
(* Claims about a submission, checked under Spec *)

Transcript == session_state.messages
Succeeded == outcomes # <<>> /\ outcomes[Len(outcomes)] = "return"
\* a submission's call has returned and nothing was cleared since
Submitted == pc = "idle" /\ user_prompt # None

\* C4: the user's turn is in the transcript before the first HTTP attempt and
\* throughout the call; once the call has returned the transcript is the one
\* before the submission plus the user turn, plus a model turn with the
\* returned text exactly when the call succeeded.
C4_UserTurnThenModelTurn ==
    /\ pc \in {"call", "post", "sleep", "done"}
         => Transcript = Append(submitted_from, <<"user", user_prompt>>)
    /\ pc = "call" => outcomes = <<>>
    /\ Submitted
         => /\ Transcript = IF Succeeded
                            THEN submitted_from
                                 \o <<<<"user", user_prompt>>, <<"model", ai_response>>>>
                            ELSE Append(submitted_from, <<"user", user_prompt>>)
            /\ Succeeded <=> ai_response # None
            /\ Succeeded => ai_response \in {"Hi there", NoTextMessage}

C4_Witness ==
    /\ Submitted
    /\ outcomes = <<"Exception", "HTTPError">>
    /\ ai_response = None
    /\ Transcript = Append(submitted_from, <<"user", "Hello">>)

\* C5: the history given to the builder is the last 10 turns without the
\* final one (the turn just appended), so that the document ends with the new
\* prompt, holding it once, and has at most 10 messages.
C5_Original ==
    (pc \in {"post", "sleep", "done"})
       => LET recent == LastN(Transcript, 10)
              history == SubSeq(recent, 1, Len(recent) - 1)
          IN  /\ contents = [i \in 1..Len(history) |-> TurnMessage(history[i])]
                            \o <<[role |-> "user",
                                  parts |-> UserParts(user_prompt, image_data, mime_type)]>>
              /\ Len(contents) <= 10

-----------------------------------------------------------------------------
(* Claims about the login and the first submission, checked under Spec *)

\* the (username, password) pairs of the store: the SHA-256 hex digest of
\* "secret123" is alice's password_hash, that of "hunter2" is bob's
StoredLogins == { <<"alice", "secret123", "Alice">>, <<"bob", "hunter2", "Bob">> }

\* C8: a submitted login authenticates the session if and only if the store
\* holds a record of exactly that username whose password_hash is the SHA-256
\* hex digest of the password; the session then holds authenticated = true, the
\* stored username and the stored display name. With no record the error is
\* "Username not found.", with a record and another hash "Incorrect
\* password.", and in both cases the session stays empty.
C8_LoginOutcome ==
    form # NoForm
       => LET known == \E l \in StoredLogins : l[1] = form.username
              match == { l \in StoredLogins :
                           l[1] = form.username /\ l[2] = form.password }
          IN  /\ Authenticated(session_state) <=> match # {}
              /\ \A l \in match :
                   /\ session_state[AUTH_STATUS_KEY] = TRUE
                   /\ session_state[USERNAME_KEY] = l[1]
                   /\ session_state[NAME_KEY] = l[3]
                   /\ errors = <<>>
              /\ match = {}
                   => /\ session_state = EmptyDict
                      /\ errors = IF known THEN <<"Incorrect password.">>
                                           ELSE <<"Username not found.">>

C8_Witness ==
    /\ form = [username |-> "alice", password |-> "secret123"]
    /\ Authenticated(session_state)
    /\ session_state[USERNAME_KEY] = "alice"
    /\ session_state[NAME_KEY] = "Alice"

\* the first interaction after the login is a submission without attachment
FirstSubmission == phase = "first" /\ image_data = None /\ errors = <<>>

\* C9 as stated: the first submission of a fresh session makes the transcript
\* exactly [(user, P)], and [(user, P), (model, T)] once the call succeeded.
C9_Original ==
    /\ (FirstSubmission /\ pc \in {"call", "post", "sleep", "done"})
         => Transcript = <<<<"user", user_prompt>>>>
    /\ (FirstSubmission /\ Submitted /\ Succeeded)
         => Transcript = <<<<"user", user_prompt>>, <<"model", ai_response>>>>

\* the greeting turn main_app puts in a new transcript when a key is configured
GreetingTurn ==
    <<"model", "Hello " \o session_state[NAME_KEY]
               \o "! I'm a Multimodal AI. Feel free to upload an image for analysis.">>

\* C9 amended: the first submission of a fresh session makes the transcript
\* exactly [(model, greeting), (user, P)] before the call and, when the call
\* succeeds with text T, exactly [(model, greeting), (user, P), (model, T)];
\* when it fails the transcript stays [(model, greeting), (user, P)].
C9_FirstSubmissionAfterGreeting ==
    /\ (FirstSubmission /\ pc \in {"call", "post", "sleep", "done"})
         => Transcript = <<GreetingTurn, <<"user", user_prompt>>>>
    /\ (FirstSubmission /\ Submitted)
         => Transcript = IF Succeeded
                         THEN <<GreetingTurn, <<"user", user_prompt>>,
                                <<"model", ai_response>>>>
                         ELSE <<GreetingTurn, <<"user", user_prompt>>>>

C9_Witness ==
    /\ FirstSubmission
    /\ Submitted
    /\ user_prompt = "Hello"
    /\ ai_response = "Hi there"
    /\ session_state[NAME_KEY] = "Alice"
    /\ Len(Transcript) = 3
    /\ Transcript[3] = <<"model", "Hi there">>

KeyAbsent == GEMINI_API_KEY \in {None, ""}

\* C10 as stated: with the key absent an authenticated user submits a prompt,
\* and the transcript gains the user turn (the call returning None without a
\* network call): in every such state that submission can be made.
C10_Original ==
    (KeyAbsent /\ Authenticated(session_state) /\ pc = "idle")
       => ENABLED (\E p \in Prompts :
                     /\ Submit(p, NoFile)
                     /\ session_state'.messages = Append(Transcript, <<"user", p>>))

\* C10 amended: with the key absent the chat input is disabled, so no
\* submission is accepted: no call is made, no HTTP attempt and no sleep
\* happen, and the transcript gains neither a user turn nor a model turn (it
\* holds the greeting with the missing-key note, or nothing after a clear).
C10_NoKeyNoSubmission ==
    KeyAbsent
       => /\ pc \notin {"call", "post", "sleep", "done"}
          /\ user_prompt = None
          /\ outcomes = <<>>
          /\ sleeps = <<>>
          /\ ai_response = None
          /\ "messages" \in DOMAIN session_state
               => \/ Transcript = <<>>
                  \/ Transcript =
                       <<<<"model", "Hello " \o session_state[NAME_KEY]
                            \o "! I'm a Multimodal AI. Feel free to upload an image for analysis."
                            \o "\n\n**Note:** Missing API key. Please check your .env file.">>>>

C10_Witness ==
    /\ GEMINI_API_KEY = None
    /\ Authenticated(session_state)
    /\ pc = "idle"
    /\ Len(Transcript) = 1
    /\ ~ENABLED DoSubmit

-----------------------------------------------------------------------------
(* Claims about the gate of the chat page, checked under Spec *)

\* C11: while the session is not authenticated, or no API key is configured,
\* no submission is accepted: no submit step is enabled, no call is running,
\* no HTTP attempt has been issued, and the transcript holds no user turn.
C11_SubmissionGate ==
    (~Get(session_state, "authenticated", FALSE) \/ KeyAbsent)
       => /\ ~ENABLED DoSubmit
          /\ ~ENABLED Call
          /\ ~ENABLED DoPost
          /\ Attempts = 0
          /\ "messages" \in DOMAIN session_state
               => \A i \in 1..Len(Transcript) : Transcript[i][1] # "user"

C11_Witness ==
    /\ ~KeyAbsent
    /\ ~Authenticated(session_state)
    /\ errors = <<"Incorrect password.">>
    /\ ~ENABLED DoSubmit

\* C12: a clear leaves a transcript of 0 turns, whatever its length before, of
\* which the last-10 window is empty, and an empty transcript stays empty (no
\* greeting, no other turn) until a submission is accepted, which makes it
\* the one user turn.
C12_ClearEmptiesTranscript ==
    [][ /\ ClearHistory
          => /\ Transcript' = <<>>
             /\ LastN(Transcript', 10) = <<>>
        /\ ( /\ Authenticated(session_state)
             /\ Authenticated(session_state')
             /\ "messages" \in DOMAIN session_state
             /\ Transcript = <<>> )
          => \/ Transcript' = <<>>
             \/ /\ pc = "idle"
                /\ pc' = "call"
                /\ Transcript' = <<<<"user", user_prompt'>>>> ]_vars

C12_Witness ==
    /\ Authenticated(session_state)
    /\ ~KeyAbsent
    /\ phase = "later"
    /\ pc = "idle"
    /\ user_prompt = None
    /\ Transcript = <<>>
    /\ LastN(Transcript, 10) = <<>>

-----------------------------------------------------------------------------
(* Claims about the classification of a response *)

ParsedOk(resp) == resp.raised = None /\ resp.status_code = 200 /\ resp.parses

\* a parsed body from which no text can be taken: every body of the model but
\* those with a non-empty first text part
NoTextIn(body) == body \notin { TextBody(t) : t \in Texts }

\* C13: a 2xx response whose body parses and yields no text (an empty
\* candidates list, a candidate without content or parts, an empty text, ...)
\* ends the call on that same attempt with the sentinel string, no retry and
\* no sleep following it, and the sentinel is appended as a model turn.
C13_Original ==
    (Attempts >= 1 /\ ParsedOk(response) /\ NoTextIn(response.json))
       => /\ pc \in {"done", "idle"}
          /\ outcomes[Attempts] = "return"
          /\ ai_response = "Error: Could not extract text from the Gemini response."
          /\ Len(sleeps) = Attempts - 1
          /\ Submitted
               => Transcript[Len(Transcript)]
                    = <<"model", "Error: Could not extract text from the Gemini response.">>

-----------------------------------------------------------------------------
(* Claims about what a failed login shows *)

\* C14: a failed login looks the same whichever of the two reasons applies:
\* after a failed attempt, every other failing attempt on the same form would
\* have shown the same messages and left the same session state.
C14_Original ==
    (form # NoForm /\ ~Authenticated(session_state))
       => \A u \in Usernames, p \in Passwords :
            LET r == CheckCredentials(session_state, u, p)
            IN  ~Authenticated(r.session)
                  => /\ r.errors = errors
                     /\ r.session = session_state

-----------------------------------------------------------------------------
(* Claims about exhausting the attempts *)

\* str(e) of the exceptions the generic handler gets in the model: a read
\* timeout, an undecodable body, an index into an empty list
LastCauses ==
    { "HTTPSConnectionPool(host='generativelanguage.googleapis.com', port=443): "
      \o "Read timed out. (read timeout=60)",
      "Expecting value: line 1 column 1 (char 0)",
      "list index out of range" }

AllGeneric == Attempts >= 1 /\ \A k \in 1..Attempts : outcomes[k] = "Exception"

\* C15: a call all of whose attempts end in the generic exception handler makes
\* exactly max_retries attempts and returns None with the "Failed to connect"
\* message on the last one; it sleeps max_retries - 1 times, for 2^0, 2^1, ...,
\* 2^(max_retries - 2), once between two attempts and never after the last.
C15_ExhaustsAfterMaxRetries ==
    AllGeneric
       => /\ Attempts <= max_retries
          /\ Len(sleeps) \in {Attempts - 1, Attempts}
          /\ \A i \in 1..Len(sleeps) : sleeps[i] = 2 ^ (i - 1)
          /\ Len(sleeps) <= max_retries - 1
          /\ pc = "sleep" => Attempts < max_retries /\ Len(sleeps) = Attempts - 1
          /\ pc = "post" => Attempts < max_retries /\ Len(sleeps) = Attempts
          /\ pc = "done"
               => /\ Attempts = max_retries
                  /\ Len(sleeps) = max_retries - 1
                  /\ ai_response = None
                  /\ \E e \in LastCauses :
                       errors = << "Failed to connect to the API after "
                                   \o ToString(max_retries) \o " attempts: " \o e >>
                  /\ response.raised = None /\ response.parses
                       => errors = << "Failed to connect to the API after "
                                      \o ToString(max_retries)
                                      \o " attempts: list index out of range" >>

C15_Witness ==
    /\ max_retries = 3
    /\ pc = "done"
    /\ outcomes = <<"Exception", "Exception", "Exception">>
    /\ sleeps = <<1, 2>>
    /\ ai_response = None
    /\ errors = <<"Failed to connect to the API after 3 attempts: list index out of range">>

-----------------------------------------------------------------------------
(* Claims about unusual attachments *)

NewUserMessage == contents[Len(contents)]

EmptyUpload == [bytes |-> "", type |-> "image/png", opens |-> FALSE]

\* C16 as stated: an attachment with empty data, or with an unrecognised MIME
\* type, still gives the new user message an inline part with that data and
\* MIME type ahead of the text part.
C16_Original ==
    ( /\ InCall
      /\ KeyGiven
      /\ image_data # None
      /\ mime_type \in {"image/png", "application/x-unknown"}
      /\ image_data = "" \/ mime_type = "application/x-unknown" )
       => NewUserMessage.parts
            = <<[inlineData |-> [mimeType |-> mime_type, data |-> image_data]],
                [text |-> user_prompt]>>

\* C16 amended: the encoder passes empty bytes through (the empty string and the
\* file's MIME type), and the payload builder passes an unrecognised MIME type
\* through when the data is not empty: the inline part carries the data and the
\* type as given, ahead of the text part. An attachment whose data is the empty
\* string (the encoding of empty bytes) gets no inline part: the new user
\* message is the text part alone.
C16_EmptyAttachmentLeftOut ==
    /\ base64_encode_image(EmptyUpload) = <<"", "image/png">>
    /\ ( /\ InCall
         /\ KeyGiven
         /\ image_data = "UE5HMQ=="
         /\ mime_type = "application/x-unknown" )
       => NewUserMessage.parts
            = <<[inlineData |-> [mimeType |-> "application/x-unknown",
                                 data |-> "UE5HMQ=="]],
                [text |-> user_prompt]>>
    /\ ( /\ InCall
         /\ KeyGiven
         /\ image_data = ""
         /\ mime_type \in {"image/png", "application/x-unknown"} )
       => /\ NewUserMessage.parts = <<[text |-> user_prompt]>>
          /\ \A i \in 1..Len(contents) : \A j \in 1..Len(contents[i].parts) :
               "inlineData" \notin DOMAIN contents[i].parts[j]

C16_Witness ==
    /\ pc = "done"
    /\ api_key = "AIzaSyTestKey"
    /\ image_data = ""
    /\ mime_type = "image/png"
    /\ Len(contents) >= 1
    /\ NewUserMessage.parts = <<[text |-> user_prompt]>>
    /\ Attempts >= 1

-----------------------------------------------------------------------------
(* Claims about the session after a failed call *)

\* the latest submission's call made an attempt and ended in an except clause
FailedCall ==
    /\ Submitted
    /\ Attempts >= 1
    /\ outcomes[Attempts] \in {"HTTPError", "ConnectionError", "Exception"}

Identity(ss) == <<Get(ss, "username", None), Get(ss, "name", None)>>

\* a step of a running call keeps the session, its identity and every turn
CallKeepsSession ==
    pc \in {"call", "post", "sleep", "done"}
       => /\ Authenticated(session_state)
          /\ Authenticated(session_state')
          /\ Identity(session_state') = Identity(session_state)
          /\ Len(Transcript') >= Len(Transcript)
          /\ SubSeq(Transcript', 1, Len(Transcript)) = Transcript
          /\ (pc' = "done" /\ Len(outcomes') >= 1 /\ ai_response' = None)
               => errors' # <<>>

\* the session once a call has failed
AfterFailedCall ==
    FailedCall
       => /\ Authenticated(session_state)
          /\ \E l \in StoredLogins : Identity(session_state) = <<l[1], l[3]>>
          /\ ai_response = None
          /\ Transcript = Append(submitted_from, <<"user", user_prompt>>)
          /\ Len(Transcript) + 2 <= MaxTranscript => ENABLED DoSubmit

\* a submission answered after one that was not
AnsweredAfterUnanswered ==
    ( /\ Submitted
      /\ Succeeded
      /\ submitted_from # <<>>
      /\ submitted_from[Len(submitted_from)][1] = "user" )
       => Transcript = submitted_from \o <<<<"user", user_prompt>>,
                                           <<"model", ai_response>>>>

\* C17: a call that fails (HTTP error, connection error, attempts exhausted)
\* leaves the session usable. While the call runs and when it returns, the
\* session stays authenticated with the same username and name and loses no
\* turn; after the failure the transcript is the earlier turns plus the
\* unanswered user turn, the error was shown by the run of the call, and (while
\* the transcript bound of the model leaves room) a further prompt can be
\* submitted; when that next
\* call succeeds its user turn and model turn follow the unanswered one.
C17_UsableAfterFailure ==
    [][CallKeepsSession]_vars /\ []AfterFailedCall /\ []AnsweredAfterUnanswered

\* a submission answered with a text, made after one that failed
C17_Witness ==
    /\ Submitted
    /\ Succeeded
    /\ ai_response = "Hi there"
    /\ Len(submitted_from) >= 2
    /\ submitted_from[Len(submitted_from)][1] = "user"
    /\ Transcript = submitted_from \o <<<<"user", user_prompt>>, <<"model", "Hi there">>>>
    /\ Authenticated(session_state)

-----------------------------------------------------------------------------
(* Claims about termination, checked under SendFairSpec *)

\* a step of a call never goes past max_retries attempts, and a call that has
\* returned makes no further attempt and no further sleep
BoundedAttempts ==
    /\ Attempts' <= max_retries'
    /\ Len(sleeps') <= Attempts'
    /\ pc = "done" => outcomes' = outcomes /\ sleeps' = sleeps /\ pc' = "done"

\* C18: every call returns: whatever each attempt yields, the call reaches its
\* end (a text, the sentinel or None) after at most max_retries attempts, and
\* once it has returned it stays returned, with no further attempt or sleep.
C18_CallTerminates ==
    <>[](pc = "done") /\ [][BoundedAttempts]_vars

\* a call that used every allowed attempt and was answered on the last one
C18_Witness ==
    /\ pc = "done"
    /\ max_retries = 4
    /\ Attempts = 4
    /\ outcomes[4] = "return"
    /\ sleeps = <<1, 2, 4>>

-----------------------------------------------------------------------------
(* Claims about timeouts *)

Timeouts == {"ConnectTimeout", "ReadTimeout"}

\* C19: an attempt that times out, while connecting or while reading, and is
\* not the last allowed attempt is retried: it ends in the generic handler,
\* which sleeps 2^k and goes on to the next attempt.
C19_Original ==
    ( /\ Attempts >= 1
      /\ response.raised \in Timeouts
      /\ Attempts < max_retries )
       => /\ outcomes[Attempts] = "Exception"
          /\ ai_response = None
          /\ \/ pc = "sleep" /\ Len(sleeps) = Attempts - 1
             \/ /\ pc = "post"
                /\ Len(sleeps) = Attempts
                /\ sleeps[Attempts] = 2 ^ (Attempts - 1)

-----------------------------------------------------------------------------
(* Claims about the lifetime of the transcript, checked under Spec *)

SessionKeys == {"authenticated", "username", "name", "messages"}

\* a transcript, an identity, a submission or a clearing only with a session
TranscriptOnlyInSession ==
    /\ "messages" \in DOMAIN session_state => Authenticated(session_state)
    /\ ~Authenticated(session_state)
         => /\ DOMAIN session_state \cap SessionKeys = {}
            /\ ~ENABLED DoSubmit
            /\ ~ENABLED ClearHistory
            /\ pc \in {"idle", "rerun", "stopped"}
    /\ Authenticated(session_state)
         => /\ {"authenticated", "username", "name"} \subseteq DOMAIN session_state
            /\ "messages" \notin DOMAIN session_state
                 => /\ pc = "rerun"
                    /\ ~ENABLED DoSubmit
                    /\ ~ENABLED ClearHistory

\* the step that ends a session leaves nothing of it, and the run after it
\* leaves the application as it was at the start; the step that starts a
\* session gives it no transcript, and the run after it creates one of its
\* own: the greeting of the new user alone
SessionEndsAndStartsClean ==
    /\ (Authenticated(session_state) /\ ~Authenticated(session_state'))
         => /\ session_state' = EmptyDict
            /\ pc' = "rerun"
    /\ (pc = "rerun" /\ ~Authenticated(session_state)) => Init'
    /\ (~Authenticated(session_state) /\ Authenticated(session_state'))
         => /\ "messages" \notin DOMAIN session_state'
            /\ pc' = "rerun"
    /\ ("messages" \notin DOMAIN session_state /\ "messages" \in DOMAIN session_state')
         => /\ Len(Transcript') = 1
            /\ Transcript'[1][1] = "model"
            /\ ~KeyAbsent
                 => Transcript'[1][2]
                      = "Hello " \o session_state'.name
                        \o "! I'm a Multimodal AI. Feel free to upload an image for analysis."

\* C20: a transcript exists only while the session is authenticated. Logging
\* out removes the flag, the identity and the whole transcript in one step and
\* leaves the application as it was at the start; submitting and clearing are
\* possible only when authenticated; a login starts with a transcript holding
\* the greeting alone, no turn of any earlier session.
C20_TranscriptOnlyWhileAuthenticated ==
    []TranscriptOnlyInSession /\ [][SessionEndsAndStartsClean]_vars

\* bob has just logged in: only his greeting is there (the state after a
\* logout and its run is an initial state, so a login after a logout is such a
\* login)
C20_Witness ==
    /\ Authenticated(session_state)
    /\ phase = "fresh"
    /\ pc = "idle"
    /\ session_state.username = "bob"
    /\ ~KeyAbsent
    /\ Transcript = <<<<"model", "Hello Bob! I'm a Multimodal AI. Feel free to upload an image for analysis.">>>>

====
